---- MODULE Spec2Model ----
(***************************************************************************)
(* Tool Lending Tracker (src/tool_lending_gui.py and its Polish twin       *)
(* src/tool_lending_gui_pl.py, which differs only in the message texts and *)
(* in the audit tags WYPOZYCZ / ZWROT).                                    *)
(*                                                                         *)
(* Two state machines share this module:                                   *)
(*   Spec     the application: the registry self.data, the snapshot file,  *)
(*            the audit log and the widgets the handlers read and write;   *)
(*   SpecSel  one SearchEntry widget (the tool selector): its text, its    *)
(*            lists, its popdown, the keyboard focus and the deferred      *)
(*            focus checks, with the host's writes as actions.             *)
(* Text is a sequence of one-character strings, so that strip(), lower()   *)
(* and the substring test are computed and not assumed.                    *)
(*                                                                         *)
(* In Spec the text of the two add fields and of the two selectors and the *)
(* selected row of the two list boxes are inputs of the handler that reads *)
(* them: the user types, or selects, and then presses the button.  The     *)
(* variables of the SearchEntry widget, its text included, move in SpecSel.*)
(***************************************************************************)
EXTENDS Naturals, Sequences, FiniteSets

VARIABLES
    tools,              \* self.data["tools"]
    borrowers,          \* self.data["borrowers"]
    loans,              \* self.data["loans"]
    disk,               \* the content of DATA_FILE
    log,                \* the lines of LOG_FILE
    today,              \* the calendar day datetime.now() falls on
    tools_listbox,      \* items of self.tools_listbox
    borrowers_listbox,  \* items of self.borrowers_listbox
    rows,               \* the loans bound to the Return buttons on display
    tool_var,           \* self.tool_search.var
    tool_full,          \* self.tool_search.full_list
    borrower_var,       \* self.borrower_search.var
    borrower_full,      \* self.borrower_search.full_list
    filtered_list,      \* self.tool_search.filtered_list
    popdown,            \* self.tool_search.popdown has been created
    viewable,           \* the popdown is on screen (deiconify / withdraw)
    lb_items,           \* items of self.tool_search.listbox
    lb_sel,             \* selected row of that listbox (0: none)
    focus,              \* the widget holding the keyboard focus
    timers,             \* pending after(200, _check_focus) callbacks
    msg,                \* the dialog the last handler showed ("none": none)
    reply,              \* the answer to its askyesno ("none": not asked)
    op                  \* the event handled last (observation only)

vars == <<tools, borrowers, loans, disk, log, today, tools_listbox,
          borrowers_listbox, rows, tool_var, tool_full, borrower_var,
          borrower_full, filtered_list, popdown, viewable, lb_items, lb_sel,
          focus, timers, msg, reply, op>>

dataVars == <<tools, borrowers, loans, disk, log>>

viewVars == <<tools_listbox, borrowers_listbox, tool_full, borrower_full, rows>>

selVars == <<filtered_list, popdown, viewable, lb_items, lb_sel, focus,
             timers>>

(***************************************************************************)
(* Bounds of the model.                                                    *)
(***************************************************************************)
MaxLog == 2
MaxDay == 1
MaxText == 2
MaxTimers == 1

(***************************************************************************)
(* Text.                                                                   *)
(***************************************************************************)
Blank == << >>
Space == <<" ">>
Hammer == <<"H", "a", "m", "m", "e", "r">>
HandDrill == <<"H", "a", "n", "d", " ", "D", "r", "i", "l", "l">>
Wrench == <<"W", "r", "e", "n", "c", "h">>
Alice == <<"A", "l", "i", "c", "e">>
Bob == <<"B", "o", "b">>

\* str.lower() on one character of the alphabet in use
LowerChar(c) ==
    CASE c = "A" -> "a"
      [] c = "B" -> "b"
      [] c = "D" -> "d"
      [] c = "H" -> "h"
      [] c = "W" -> "w"
      [] OTHER -> c

\* str.lower()
LowerStr(s) == [i \in 1..Len(s) |-> LowerChar(s[i])]

\* str.strip(): leading and trailing white space removed, inner kept
RECURSIVE LStrip(_)
LStrip(s) == IF s # << >> /\ Head(s) = " " THEN LStrip(Tail(s)) ELSE s

RECURSIVE RStrip(_)
RStrip(s) ==
    IF s # << >> /\ s[Len(s)] = " " THEN RStrip(SubSeq(s, 1, Len(s) - 1))
    ELSE s

Strip(s) == RStrip(LStrip(s))

\* needle in hay, on strings: a contiguous run of hay equals needle
Contains(hay, needle) ==
    \E i \in 0..(Len(hay) - Len(needle)) :
        SubSeq(hay, i + 1, i + Len(needle)) = needle

\* x in list
In(x, list) == \E i \in 1..Len(list) : list[i] = x

\* a removal that drops the last element whatever x is
RemoveFirst_PopLast(list, x) == SubSeq(list, 1, Len(list) - 1)

\* list.remove(x) where x is in list: the first equal element goes
RemoveFirst(list, x) ==
    LET i == CHOOSE k \in 1..Len(list) :
                 list[k] = x /\ \A j \in 1..(k - 1) : list[j] # x
    IN  SubSeq(list, 1, i - 1) \o SubSeq(list, i + 1, Len(list))

(***************************************************************************)
(* The texts the user types into the add fields and the two selectors.     *)
(***************************************************************************)
\* the add-tool field and the tool selector; two tool names come of them,
\* which differ only in letter case
ToolTexts ==
    {Blank, Space, Hammer, Space \o Hammer \o Space, LowerStr(Hammer)}

\* the add-borrower field
BorrowerTexts == {Blank, Alice, Alice \o Space, Bob}

\* the borrower selector
BorrowerSearchTexts == BorrowerTexts \cup {LowerStr(Alice)}

(***************************************************************************)
(* Data management (load_data, save_data, log_action).                     *)
(***************************************************************************)
\* load_data() when DATA_FILE is missing or json.load raised
EmptyData == [tools |-> << >>, borrowers |-> << >>, loans |-> << >>]

\* a snapshot write that leaves the loans out
SaveData_NoLoans(t, b, l) == [tools |-> t, borrowers |-> b, loans |-> << >>]

\* save_data(self.data): the whole registry replaces the file's content
SaveData(t, b, l) == [tools |-> t, borrowers |-> b, loans |-> l]

\* a log line with the tool and the borrower in each other's place
LogLine_Swapped(action, tool, borrower) ==
    [action |-> action, tool |-> borrower, borrower |-> tool]

\* the line log_action(action, tool, borrower) appends (its time stamp, which
\* nothing reads, is left out)
LogLine(action, tool, borrower) ==
    [action |-> action, tool |-> tool, borrower |-> borrower]

(***************************************************************************)
(* The registry's tests and the lists _refresh_all derives.                *)
(***************************************************************************)
\* the test of the tool's loans on the oldest loan only
ToolBorrowed_FirstOnly(tool, ls) == ls # << >> /\ ls[1].tool = tool

\* any(loan["tool"] == tool for loan in self.data["loans"])
ToolBorrowed(tool, ls) == \E i \in 1..Len(ls) : ls[i].tool = tool

\* the test of the borrower's loans on the newest loan only
BorrowerHasLoans_LastOnly(borrower, ls) ==
    ls # << >> /\ ls[Len(ls)].borrower = borrower

\* any(loan["borrower"] == borrower for loan in self.data["loans"])
BorrowerHasLoans(borrower, ls) == \E i \in 1..Len(ls) : ls[i].borrower = borrower

\* borrowed_tools = {loan["tool"] for loan in self.data["loans"]}
BorrowedTools(ls) == {ls[i].tool : i \in 1..Len(ls)}

\* the tool candidates without the filter on blank names
AvailableTools_KeepBlank(ts, ls) ==
    SelectSeq(ts, LAMBDA t : t \notin BorrowedTools(ls))

\* [t for t in tools if t and t.strip() and t not in borrowed_tools]
AvailableTools(ts, ls) ==
    SelectSeq(ts, LAMBDA t : t # Blank /\ Strip(t) # Blank
                             /\ t \notin BorrowedTools(ls))

\* [b for b in borrowers if b and b.strip()]
AvailableBorrowers(bs) ==
    SelectSeq(bs, LAMBDA b : b # Blank /\ Strip(b) # Blank)

\* the loan _lend_tool builds; date is today's "%Y-%m-%d"
NewLoan(tool, borrower, date) ==
    [tool |-> tool, borrower |-> borrower, date |-> date]

\* a lend that makes the new loan the whole loan list
LendLoans_Replace(ls, loan) == <<loan>>

\* self.data["loans"].append(loan)
LendLoans(ls, loan) == Append(ls, loan)

\* a return that drops the oldest loan instead of the given one
ReturnLoans_PopFirst(ls, loan) == Tail(ls)

\* a return that drops the newest loan instead of the given one
ReturnLoans_PopLast(ls, loan) == SubSeq(ls, 1, Len(ls) - 1)

\* self.data["loans"].remove(loan)
ReturnLoans(ls, loan) == RemoveFirst(ls, loan)

\* _refresh_all on registry (t, b, l): the two list boxes are refilled, the
\* selectors get their candidate lists and the borrowed rows are rebuilt
RefreshAll(t, b, l) ==
    /\ tools_listbox' = t
    /\ borrowers_listbox' = b
    /\ tool_full' = AvailableTools(t, l)
    /\ borrower_full' = AvailableBorrowers(b)
    /\ rows' = l

(***************************************************************************)
(* The handlers' decisions, in the order the code tests them.              *)
(***************************************************************************)
\* the add handlers' decision without the test for a name already present
AddVerdict_NoDuplicateTest(name, list) ==
    IF name = Blank THEN "Blank" ELSE "ok"

\* _add_tool / _add_borrower on the stripped name: silent return when it is
\* empty, the "already exists" warning when it is in the list
AddVerdict(name, list) ==
    IF name = Blank THEN "Blank"
    ELSE IF In(name, list) THEN "Duplicate"
    ELSE "ok"

\* the lend handler's decision without the test of the active loans
LendVerdict_NoLoanTest(tool, borrower, ts, bs, ls) ==
    IF tool = Blank \/ borrower = Blank THEN "BlankSelection"
    ELSE IF ~In(tool, ts) THEN "UnknownTool"
    ELSE IF ~In(borrower, bs) THEN "UnknownBorrower"
    ELSE "ok"

\* the lend handler's decision with the borrower looked up before the tool
LendVerdict_BorrowerFirst(tool, borrower, ts, bs, ls) ==
    IF tool = Blank \/ borrower = Blank THEN "BlankSelection"
    ELSE IF ~In(borrower, bs) THEN "UnknownBorrower"
    ELSE IF ~In(tool, ts) THEN "UnknownTool"
    ELSE IF ToolBorrowed(tool, ls) THEN "AlreadyLent"
    ELSE "ok"

\* _lend_tool on the stripped texts: the four early returns, in order
LendVerdict(tool, borrower, ts, bs, ls) ==
    IF tool = Blank \/ borrower = Blank THEN "BlankSelection"
    ELSE IF ~In(tool, ts) THEN "UnknownTool"
    ELSE IF ~In(borrower, bs) THEN "UnknownBorrower"
    ELSE IF ToolBorrowed(tool, ls) THEN "AlreadyLent"
    ELSE "ok"

\* the delete handlers' decision without the test of the active loans
DeleteVerdict_NoInUseTest(cursel, inUse) ==
    IF cursel = 0 THEN "NoSelection" ELSE "Confirm"

\* _delete_tool / _delete_borrower: no selection, in use, or the askyesno
DeleteVerdict(cursel, inUse) ==
    IF cursel = 0 THEN "NoSelection"
    ELSE IF inUse THEN "InUse"
    ELSE "Confirm"

Answer(yes) == IF yes THEN "yes" ELSE "no"

(***************************************************************************)
(* Spec: the application.                                                  *)
(***************************************************************************)
\* the SearchEntry internals and the focus, which the handlers of
\* ToolLendingApp never touch
SelIdle ==
    /\ filtered_list = << >>
    /\ popdown = FALSE
    /\ viewable = FALSE
    /\ lb_items = << >>
    /\ lb_sel = 0
    /\ focus = "entry"
    /\ timers = 0

\* ToolLendingApp.__init__ with no snapshot on disk: load_data() gives the
\* empty registry, the SearchEntry widgets are built on [] and _refresh_all runs
Init ==
    /\ tools = EmptyData.tools
    /\ borrowers = EmptyData.borrowers
    /\ loans = EmptyData.loans
    /\ disk = EmptyData
    /\ log = << >>
    /\ today = 0
    /\ tools_listbox = << >>
    /\ borrowers_listbox = << >>
    /\ rows = << >>
    /\ tool_var = Blank
    /\ tool_full = << >>
    /\ borrower_var = Blank
    /\ borrower_full = << >>
    /\ SelIdle
    /\ msg = "none"
    /\ reply = "none"
    /\ op = "__init__"

\* midnight passes
Tick ==
    /\ today < MaxDay
    /\ today' = today + 1
    /\ op' = "tick"
    /\ msg' = "none"
    /\ reply' = "none"
    /\ UNCHANGED <<dataVars, viewVars, tool_var, borrower_var, selVars>>

\* ToolLendingApp._add_tool; text is what self.tool_entry holds
AddTool(text) ==
    LET name == Strip(text)
        verdict == AddVerdict(name, tools)
        t == Append(tools, name)
    IN  /\ op' = "_add_tool"
        /\ reply' = "none"
        /\ UNCHANGED <<today, tool_var, borrower_var, selVars>>
        /\ IF verdict = "Blank"
           THEN /\ msg' = "none"
                /\ UNCHANGED <<dataVars, viewVars>>
           ELSE IF verdict = "Duplicate"
           THEN /\ msg' = "DuplicateTool"
                /\ UNCHANGED <<dataVars, viewVars>>
           ELSE /\ tools' = t
                /\ disk' = SaveData(t, borrowers, loans)
                /\ RefreshAll(t, borrowers, loans)
                /\ msg' = "none"
                /\ UNCHANGED <<borrowers, loans, log>>

\* ToolLendingApp._delete_tool; cursel is the selected row of the tools list
\* box (0: none), yes the user's answer to the askyesno
DeleteTool(cursel, yes) ==
    LET tool == tools_listbox[cursel]
        verdict == DeleteVerdict(cursel,
                                 cursel # 0 /\ ToolBorrowed(tool, loans))
    IN  /\ cursel \in 0..Len(tools_listbox)
        /\ op' = "_delete_tool"
        /\ UNCHANGED <<today, tool_var, borrower_var, selVars>>
        /\ IF verdict = "NoSelection"
           THEN /\ msg' = "SelectTool"
                /\ reply' = "none"
                /\ UNCHANGED <<dataVars, viewVars>>
           ELSE IF verdict = "InUse"
           THEN /\ msg' = "ToolInUse"
                /\ reply' = "none"
                /\ UNCHANGED <<dataVars, viewVars>>
           ELSE /\ msg' = "ConfirmDeleteTool"
                /\ reply' = Answer(yes)
                /\ IF yes
                   THEN LET t == RemoveFirst(tools, tool)
                        IN  /\ tools' = t
                            /\ disk' = SaveData(t, borrowers, loans)
                            /\ RefreshAll(t, borrowers, loans)
                            /\ UNCHANGED <<borrowers, loans, log>>
                   ELSE UNCHANGED <<dataVars, viewVars>>

\* ToolLendingApp._add_borrower; text is what self.borrower_entry holds
AddBorrower(text) ==
    LET name == Strip(text)
        verdict == AddVerdict(name, borrowers)
        b == Append(borrowers, name)
    IN  /\ op' = "_add_borrower"
        /\ reply' = "none"
        /\ UNCHANGED <<today, tool_var, borrower_var, selVars>>
        /\ IF verdict = "Blank"
           THEN /\ msg' = "none"
                /\ UNCHANGED <<dataVars, viewVars>>
           ELSE IF verdict = "Duplicate"
           THEN /\ msg' = "DuplicateBorrower"
                /\ UNCHANGED <<dataVars, viewVars>>
           ELSE /\ borrowers' = b
                /\ disk' = SaveData(tools, b, loans)
                /\ RefreshAll(tools, b, loans)
                /\ msg' = "none"
                /\ UNCHANGED <<tools, loans, log>>

\* ToolLendingApp._delete_borrower; cursel is the selected row of the
\* borrowers list box (0: none), yes the user's answer to the askyesno
DeleteBorrower(cursel, yes) ==
    LET borrower == borrowers_listbox[cursel]
        verdict == DeleteVerdict(cursel,
                                 cursel # 0 /\ BorrowerHasLoans(borrower, loans))
    IN  /\ cursel \in 0..Len(borrowers_listbox)
        /\ op' = "_delete_borrower"
        /\ UNCHANGED <<today, tool_var, borrower_var, selVars>>
        /\ IF verdict = "NoSelection"
           THEN /\ msg' = "SelectBorrower"
                /\ reply' = "none"
                /\ UNCHANGED <<dataVars, viewVars>>
           ELSE IF verdict = "InUse"
           THEN /\ msg' = "BorrowerInUse"
                /\ reply' = "none"
                /\ UNCHANGED <<dataVars, viewVars>>
           ELSE /\ msg' = "ConfirmDeleteBorrower"
                /\ reply' = Answer(yes)
                /\ IF yes
                   THEN LET b == RemoveFirst(borrowers, borrower)
                        IN  /\ borrowers' = b
                            /\ disk' = SaveData(tools, b, loans)
                            /\ RefreshAll(tools, b, loans)
                            /\ UNCHANGED <<tools, loans, log>>
                   ELSE UNCHANGED <<dataVars, viewVars>>

\* what _lend_tool computes from the texts of the two selectors on registry
\* (ts, bs, ls), log lg and day date: the dialog it shows, the loan list, the
\* log, and whether it went on to save, clear the selectors and refresh
LendResult(ttext, btext, ts, bs, ls, lg, date) ==
    LET tool == Strip(ttext)
        borrower == Strip(btext)
        verdict == LendVerdict(tool, borrower, ts, bs, ls)
    IN  IF verdict # "ok"
        THEN [msg |-> verdict, loans |-> ls, log |-> lg, done |-> FALSE]
        ELSE [msg |-> "none",
              loans |-> LendLoans(ls, NewLoan(tool, borrower, date)),
              log |-> Append(lg, LogLine("LEND", tool, borrower)),
              done |-> TRUE]

\* a lend handler that clears the two selectors when it rejects, too
LendTool_ClearOnReject(ttext, btext) ==
    LET r == LendResult(ttext, btext, tools, borrowers, loans, log, today)
    IN  /\ op' = "_lend_tool"
        /\ reply' = "none"
        /\ msg' = r.msg
        /\ tool_var' = Blank
        /\ borrower_var' = Blank
        /\ UNCHANGED <<today, selVars>>
        /\ IF ~r.done
           THEN UNCHANGED <<dataVars, viewVars>>
           ELSE /\ Len(log) < MaxLog
                /\ loans' = r.loans
                /\ disk' = SaveData(tools, borrowers, r.loans)
                /\ log' = r.log
                /\ RefreshAll(tools, borrowers, r.loans)
                /\ UNCHANGED <<tools, borrowers>>

\* ToolLendingApp._lend_tool; ttext and btext are the texts the user has left
\* in the tool selector and the borrower selector (typed, or picked from
\* their lists) when LEND is pressed
LendTool(ttext, btext) ==
    LET r == LendResult(ttext, btext, tools, borrowers, loans, log, today)
    IN  /\ op' = "_lend_tool"
        /\ reply' = "none"
        /\ msg' = r.msg
        /\ UNCHANGED <<today, selVars>>
        /\ IF ~r.done
           THEN UNCHANGED <<dataVars, viewVars, tool_var, borrower_var>>
           ELSE /\ Len(log) < MaxLog
                /\ loans' = r.loans
                /\ disk' = SaveData(tools, borrowers, r.loans)
                /\ log' = r.log
                /\ tool_var' = Blank
                /\ borrower_var' = Blank
                /\ RefreshAll(tools, borrowers, r.loans)
                /\ UNCHANGED <<tools, borrowers>>

\* ToolLendingApp._return_tool(loan), from the Return button of row i; yes is
\* the user's answer to the askyesno
ReturnTool(i, yes) ==
    /\ i \in 1..Len(rows)
    /\ LET loan == rows[i]
       IN  /\ op' = "_return_tool"
           /\ msg' = "ConfirmReturn"
           /\ reply' = Answer(yes)
           /\ UNCHANGED <<today, tool_var, borrower_var, selVars>>
           /\ IF yes
              THEN /\ Len(log) < MaxLog
                   /\ In(loan, loans)
                   /\ LET l == ReturnLoans(loans, loan)
                      IN  /\ loans' = l
                          /\ disk' = SaveData(tools, borrowers, l)
                          /\ log' = Append(log, LogLine("RETURN", loan.tool,
                                                        loan.borrower))
                          /\ RefreshAll(tools, borrowers, l)
                          /\ UNCHANGED <<tools, borrowers>>
              ELSE UNCHANGED <<dataVars, viewVars>>

Next ==
    \/ Tick
    \/ \E text \in ToolTexts : AddTool(text)
    \/ \E cursel \in 0..Len(tools_listbox), yes \in BOOLEAN : DeleteTool(cursel, yes)
    \/ \E text \in BorrowerTexts : AddBorrower(text)
    \/ \E cursel \in 0..Len(borrowers_listbox), yes \in BOOLEAN : DeleteBorrower(cursel, yes)
    \/ \E ttext \in ToolTexts, btext \in BorrowerSearchTexts : LendTool(ttext, btext)
    \/ \E i \in 1..Len(rows), yes \in BOOLEAN : ReturnTool(i, yes)

Spec == Init /\ [][Next]_vars

(***************************************************************************)
(* SpecLoaded: the application started on a snapshot file.                 *)
(***************************************************************************)
\* what DATA_FILE may hold at startup: nothing, or a snapshot (written by
\* hand, or by an earlier version) with blank entries and a loan
Snapshots ==
    {EmptyData,
     [tools |-> <<Hammer, Space, LowerStr(Hammer)>>,
      borrowers |-> <<Alice, Blank, Bob>>,
      loans |-> <<NewLoan(Hammer, Alice, 0)>>]}

\* ToolLendingApp.__init__: self.data = load_data(), then _refresh_all
InitLoaded ==
    \E file \in Snapshots :
        /\ tools = file.tools
        /\ borrowers = file.borrowers
        /\ loans = file.loans
        /\ disk = file
        /\ log = << >>
        /\ today = 0
        /\ tools_listbox = file.tools
        /\ borrowers_listbox = file.borrowers
        /\ rows = file.loans
        /\ tool_var = Blank
        /\ tool_full = AvailableTools(file.tools, file.loans)
        /\ borrower_var = Blank
        /\ borrower_full = AvailableBorrowers(file.borrowers)
        /\ SelIdle
        /\ msg = "none"
        /\ reply = "none"
        /\ op = "__init__"

SpecLoaded == InitLoaded /\ [][Next]_vars

(***************************************************************************)
(* SpecSel: the SearchEntry widget self.tool_search.                       *)
(* tool_var is its text (self.var), tool_full its candidate list           *)
(* (self.full_list).  A key goes to the widget holding the focus: the      *)
(* entry, which carries the bindings of __init__, or the listbox of the    *)
(* popdown, which is bound to <Button-1> only.  A key press and the key    *)
(* release that follows it are one step.                                   *)
(***************************************************************************)
\* the characters the user types into the entry
TypeChars == {"h", "a", "A"}

\* the candidate lists the host's _refresh_all may assign
CandidateLists ==
    {<< >>, <<Hammer, HandDrill, Wrench>>, <<HandDrill, Wrench>>}

\* the filter with the items compared in their own letter case
Matching_CaseSensitive(full, value) ==
    SelectSeq(full, LAMBDA item : Contains(item, value))

\* [item for item in self.full_list if value in item.lower()]
Matching(full, value) ==
    SelectSeq(full, LAMBDA item : Contains(LowerStr(item), value))

\* a filter that narrows the previous filtered list
OnKeyFiltered_Incremental(full, filtered, text) ==
    LET value == LowerStr(text)
    IN  IF value = Blank THEN full ELSE Matching(filtered, value)

\* the list _on_key assigns to self.filtered_list: full is self.full_list,
\* filtered the previous self.filtered_list, text the content of the entry
OnKeyFiltered(full, filtered, text) ==
    LET value == LowerStr(text)
    IN  IF value = Blank THEN full ELSE Matching(full, value)

\* a popdown put on screen with the listbox left as it was filled before
ShowPopdown_NoRefill(list) ==
    /\ popdown' = TRUE
    /\ viewable' = TRUE
    /\ UNCHANGED <<lb_items, lb_sel>>

\* SearchEntry._show_popdown on the new filtered list: the Toplevel is
\* created on first use, the listbox refilled (which drops its selection),
\* the popdown put on screen
ShowPopdown(list) ==
    /\ popdown' = TRUE
    /\ lb_items' = list
    /\ lb_sel' = 0
    /\ viewable' = TRUE

\* SearchEntry._hide_popdown: withdraw, if the popdown exists
HidePopdown ==
    /\ viewable' = (IF popdown THEN FALSE ELSE viewable)
    /\ UNCHANGED <<popdown, lb_items, lb_sel>>

\* ToolLendingApp.__init__ seen from the widget: SearchEntry(inner, [], ...)
\* and the first _refresh_all; the focus is not on the widget yet
InitSel ==
    /\ tools = << >>
    /\ borrowers = << >>
    /\ loans = << >>
    /\ disk = EmptyData
    /\ log = << >>
    /\ today = 0
    /\ tools_listbox = << >>
    /\ borrowers_listbox = << >>
    /\ rows = << >>
    /\ tool_var = Blank
    /\ tool_full = << >>
    /\ borrower_var = Blank
    /\ borrower_full = << >>
    /\ filtered_list = << >>
    /\ popdown = FALSE
    /\ viewable = FALSE
    /\ lb_items = << >>
    /\ lb_sel = 0
    /\ focus = "other"
    /\ timers = 0
    /\ msg = "none"
    /\ reply = "none"
    /\ op = "__init__"

hostVars == <<dataVars, today, tools_listbox, borrowers_listbox, rows,
              borrower_var, borrower_full, msg, reply>>

\* _refresh_all after a mutation of the registry assigns the candidate list
HostRefresh(list) ==
    /\ tool_full' = list
    /\ op' = "_refresh_all"
    /\ UNCHANGED <<hostVars, tool_var, selVars>>

\* a successful _lend_tool: set("") and then _refresh_all
HostLend(list) ==
    /\ tool_var' = Blank
    /\ tool_full' = list
    /\ op' = "_lend_tool"
    /\ UNCHANGED <<hostVars, selVars>>

\* a click that shows the filtered list of the last interaction
OnClick_Cached ==
    /\ IF filtered_list # << >>
       THEN ShowPopdown(filtered_list)
       ELSE UNCHANGED <<popdown, viewable, lb_items, lb_sel>>
    /\ focus' = "entry"
    /\ op' = "_on_click"
    /\ UNCHANGED <<hostVars, tool_var, tool_full, filtered_list, timers>>

\* <Button-1> on the entry: _on_click; the click gives the entry the focus
OnClick ==
    /\ filtered_list' = tool_full
    /\ IF tool_full # << >>
       THEN ShowPopdown(tool_full)
       ELSE UNCHANGED <<popdown, viewable, lb_items, lb_sel>>
    /\ focus' = "entry"
    /\ op' = "_on_click"
    /\ UNCHANGED <<hostVars, tool_var, tool_full, timers>>

\* _on_key on the text the entry now holds (the keysym is no navigation key)
OnKey(text) ==
    LET list == OnKeyFiltered(tool_full, filtered_list, text)
    IN  /\ tool_var' = text
        /\ filtered_list' = list
        /\ IF list # << >> THEN ShowPopdown(list) ELSE HidePopdown
        /\ op' = "_on_key"
        /\ UNCHANGED <<hostVars, tool_full, focus, timers>>

\* a character key with the focus on the entry: the entry inserts it, then
\* <KeyRelease> runs _on_key
TypeChar(c) ==
    /\ focus = "entry"
    /\ Len(tool_var) < MaxText
    /\ OnKey(Append(tool_var, c))

\* BackSpace with the focus on the entry: the entry drops its last
\* character, then <KeyRelease> runs _on_key
BackSpace ==
    /\ focus = "entry"
    /\ tool_var # Blank
    /\ OnKey(SubSeq(tool_var, 1, Len(tool_var) - 1))

\* a key that leaves the text as it is and is none of the navigation keys
\* (Shift, Left, BackSpace on the empty text), the focus on the entry:
\* <KeyRelease> runs _on_key
PressOtherKey ==
    /\ focus = "entry"
    /\ OnKey(tool_var)

\* the entry loses the focus to widget to: <FocusOut> runs _on_focus_out,
\* which schedules one _check_focus
EntryLosesFocus(to) ==
    /\ focus' = to
    /\ timers' = timers + 1

\* self.listbox.focus_set() called from the entry: the focus moves into
\* the listbox and the entry gets <FocusOut>; while the popdown is
\* withdrawn Tk may also hold the request back until the window is mapped,
\* and the focus stays where it is
FocusIntoListbox ==
    \/ /\ timers < MaxTimers
       /\ EntryLosesFocus("listbox")
    \/ /\ ~viewable
       /\ UNCHANGED <<focus, timers>>

\* a Down that moves the focus into the listbox and selects no row
PressDown_NoSelect ==
    /\ focus = "entry"
    /\ op' = "Down"
    /\ IF popdown
       THEN FocusIntoListbox
       ELSE UNCHANGED <<focus, timers>>
    /\ UNCHANGED <<hostVars, tool_var, tool_full, filtered_list, popdown,
                   viewable, lb_items, lb_sel>>

\* Down: on the entry <Down> runs _on_arrow_down (focus_set moves the focus
\* into the listbox, so the entry gets <FocusOut>) and _on_key returns at
\* once; the listbox is not bound to it
PressDown ==
    /\ focus = "entry"
    /\ op' = "Down"
    /\ IF popdown
       THEN /\ FocusIntoListbox
            /\ lb_sel' = (IF lb_items # << >> THEN 1 ELSE 0)
       ELSE UNCHANGED <<focus, timers, lb_sel>>
    /\ UNCHANGED <<hostVars, tool_var, tool_full, filtered_list, popdown,
                   viewable, lb_items>>

\* Up with the focus on the entry: no binding of the selector runs on the
\* press, and on the release _on_key returns at once
PressUp ==
    /\ focus = "entry"
    /\ op' = "Up"
    /\ UNCHANGED <<hostVars, tool_var, tool_full, selVars>>

\* Return: on the entry <Return> runs _on_enter and _on_key returns at once;
\* the listbox is not bound to it
PressReturn ==
    /\ focus \in {"entry", "listbox"}
    /\ op' = "Return"
    /\ IF focus = "entry" /\ popdown /\ viewable
       THEN IF lb_sel # 0
            THEN /\ tool_var' = lb_items[lb_sel]
                 /\ HidePopdown
            ELSE IF filtered_list # << >>
            THEN /\ tool_var' = filtered_list[1]
                 /\ HidePopdown
            ELSE UNCHANGED <<tool_var, popdown, viewable, lb_items, lb_sel>>
       ELSE UNCHANGED <<tool_var, popdown, viewable, lb_items, lb_sel>>
    /\ UNCHANGED <<hostVars, tool_full, filtered_list, focus, timers>>

\* Escape: on the entry <Escape> runs _hide_popdown and _on_key returns at
\* once; the listbox is not bound to it
PressEscape ==
    /\ focus \in {"entry", "listbox"}
    /\ op' = "Escape"
    /\ IF focus = "entry"
       THEN HidePopdown
       ELSE UNCHANGED <<popdown, viewable, lb_items, lb_sel>>
    /\ UNCHANGED <<hostVars, tool_var, tool_full, filtered_list, focus, timers>>

\* a list click that leaves the focus where the click put it
OnListClick_NoFocus(i) ==
    /\ viewable
    /\ i \in 1..Len(lb_items)
    /\ tool_var' = lb_items[i]
    /\ HidePopdown
    /\ focus' = "listbox"
    /\ op' = "_on_list_click"
    /\ UNCHANGED <<hostVars, tool_full, filtered_list, timers>>

\* <Button-1> on row i of the listbox: _on_list_click
OnListClick(i) ==
    /\ viewable
    /\ i \in 1..Len(lb_items)
    /\ tool_var' = lb_items[i]
    /\ HidePopdown
    /\ focus' = "entry"
    /\ op' = "_on_list_click"
    /\ UNCHANGED <<hostVars, tool_full, filtered_list, timers>>

\* the user moves the focus to a widget outside the selector (a click, Tab)
FocusAway ==
    /\ focus # "other"
    /\ IF focus = "entry"
       THEN /\ timers < MaxTimers
            /\ EntryLosesFocus("other")
       ELSE /\ focus' = "other"
            /\ UNCHANGED timers
    /\ op' = "focus_away"
    /\ UNCHANGED <<hostVars, tool_var, tool_full, filtered_list, popdown,
                   viewable, lb_items, lb_sel>>

\* the focus comes to the entry without a click on it (Tab, Shift-Tab)
FocusIn ==
    /\ focus # "entry"
    /\ focus' = "entry"
    /\ op' = "focus_in"
    /\ UNCHANGED <<hostVars, tool_var, tool_full, filtered_list, popdown,
                   viewable, lb_items, lb_sel, timers>>

\* a deferred check that hides the popdown without asking where the focus is
CheckFocus_HideAlways ==
    /\ timers > 0
    /\ timers' = timers - 1
    /\ op' = "_check_focus"
    /\ HidePopdown
    /\ UNCHANGED <<hostVars, tool_var, tool_full, filtered_list, focus>>

\* a scheduled SearchEntry._check_focus runs
CheckFocus ==
    /\ timers > 0
    /\ timers' = timers - 1
    /\ op' = "_check_focus"
    /\ IF ~popdown \/ focus = "entry" \/ focus = "listbox"
       THEN UNCHANGED <<popdown, viewable, lb_items, lb_sel>>
       ELSE HidePopdown
    /\ UNCHANGED <<hostVars, tool_var, tool_full, filtered_list, focus>>

NextSel ==
    \/ \E list \in CandidateLists : HostRefresh(list)
    \/ \E list \in CandidateLists : HostLend(list)
    \/ OnClick
    \/ \E c \in TypeChars : TypeChar(c)
    \/ BackSpace
    \/ PressOtherKey
    \/ PressDown
    \/ PressUp
    \/ PressReturn
    \/ PressEscape
    \/ \E i \in 1..Len(lb_items) : OnListClick(i)
    \/ FocusAway
    \/ FocusIn
    \/ CheckFocus

SpecSel == InitSel /\ [][NextSel]_vars

\* the Tk main loop runs every callback scheduled with after() once its
\* delay has passed
SpecSelFair == InitSel /\ [][NextSel]_vars /\ WF_vars(CheckFocus)

(***************************************************************************)
(* Properties of the application (checked under Spec).                     *)
(***************************************************************************)
NoDuplicates(list) ==
    \A i, j \in 1..Len(list) : list[i] = list[j] => i = j

LoansOf(tool) == {i \in 1..Len(loans) : loans[i].tool = tool}

\* the lend handler's result on the texts (ttext, btext) in this state
Lend(ttext, btext) ==
    LendResult(ttext, btext, tools, borrowers, loans, log, today)

\* C1: from the empty registry, every reachable state has at most one active
\* loan per tool name; there the lend handler, on any texts naming a tool an
\* active loan references and a known borrower, shows the "already borrowed"
\* warning and returns the loan list as it was, and a step of the handler that
\* shows this warning leaves the loan list unchanged.
C1_NoDoubleLend ==
    /\ [](/\ \A i, j \in 1..Len(loans) :
                loans[i].tool = loans[j].tool => i = j
          /\ \A ttext \in ToolTexts, btext \in BorrowerSearchTexts :
                (/\ LoansOf(Strip(ttext)) # {}
                 /\ In(Strip(ttext), tools)
                 /\ In(Strip(btext), borrowers))
                => (/\ Lend(ttext, btext).msg = "AlreadyLent"
                    /\ Lend(ttext, btext).loans = loans))
    /\ [][(op' = "_lend_tool" /\ msg' = "AlreadyLent") => loans' = loans]_vars

\* a second lend of a lent tool, to another borrower than the one holding it,
\* has just been refused
C1_Witness ==
    /\ op = "_lend_tool"
    /\ msg = "AlreadyLent"
    /\ Len(loans) = 1
    /\ Len(borrowers) = 2

\* C2: from the empty registry, the tool list and the borrower list never hold
\* a name twice, and a run of an add handler on a text whose stripped name is
\* already in the list shows the "already exists" warning and leaves the list
\* as it was.
C2_UniqueNames ==
    /\ [](NoDuplicates(tools) /\ NoDuplicates(borrowers))
    /\ [][/\ (op' = "_add_tool") => \A text \in ToolTexts :
                (AddTool(text) /\ In(Strip(text), tools))
                => (msg' = "DuplicateTool" /\ tools' = tools)
          /\ (op' = "_add_borrower") => \A text \in BorrowerTexts :
                (AddBorrower(text) /\ In(Strip(text), borrowers))
                => (msg' = "DuplicateBorrower" /\ borrowers' = borrowers)]_vars

\* an add of a name already present has just been refused, with two names held
C2_Witness ==
    /\ op = "_add_tool"
    /\ msg = "DuplicateTool"
    /\ Len(tools) = 2

\* the rejection the claim's order gives for stripped texts (tool, borrower):
\* unknown tool, then unknown borrower, then already lent
ClaimedRejection(tool, borrower) ==
    IF ~In(tool, tools) THEN "UnknownTool"
    ELSE IF ~In(borrower, borrowers) THEN "UnknownBorrower"
    ELSE IF LoansOf(tool) # {} THEN "AlreadyLent"
    ELSE "none"

\* what the lend handler must return on (ttext, btext) when its rejection
\* is r
LendOutcome(ttext, btext, r) ==
    /\ Lend(ttext, btext).msg = r
    /\ IF r = "none"
       THEN Lend(ttext, btext).loans =
                loans \o <<[tool |-> Strip(ttext), borrower |-> Strip(btext),
                            date |-> today]>>
       ELSE Lend(ttext, btext).loans = loans

\* C3 as stated: the lend handler rejects with UnknownTool, else
\* UnknownBorrower, else AlreadyLent, names compared exactly after stripping,
\* and only otherwise appends the loan (tool, borrower, today).
C3_AsStated ==
    \A ttext \in ToolTexts, btext \in BorrowerSearchTexts :
        LendOutcome(ttext, btext, ClaimedRejection(Strip(ttext), Strip(btext)))

\* C3 (amended): in every reachable state and on any texts, when either
\* stripped text is empty the lend handler shows the "select both" warning;
\* otherwise it rejects with UnknownTool, else UnknownBorrower, else
\* AlreadyLent, names compared exactly after stripping, and only otherwise
\* appends the loan (tool, borrower, today) at the end of the loan list.
C3_LendOrder ==
    \A ttext \in ToolTexts, btext \in BorrowerSearchTexts :
        LendOutcome(ttext, btext,
                    IF Strip(ttext) = Blank \/ Strip(btext) = Blank
                    THEN "BlankSelection"
                    ELSE ClaimedRejection(Strip(ttext), Strip(btext)))

\* the borrower was refused as unknown although the only tool, which the tool
\* text must have named, is lent; the only stored borrower is Alice, so the
\* refused text was not blank and differs from it, in letter case at least
C3_Witness ==
    /\ op = "_lend_tool"
    /\ msg = "UnknownBorrower"
    /\ Len(tools) = 1
    /\ LoansOf(tools[1]) # {}
    /\ borrowers = <<Alice>>

\* C4: a step of a handler that rejects (an add of a blank or duplicate name,
\* a delete with no selection or of a tool or borrower in use, a lend that
\* shows one of its four warnings) leaves the tool list, the borrower list,
\* the loan list, the snapshot and the audit log as they were.
C4_RejectionKeepsState ==
    [][/\ (op' = "_add_tool") => \A text \in ToolTexts :
            (AddTool(text) /\ (Strip(text) = Blank \/ In(Strip(text), tools)))
            => UNCHANGED <<tools, borrowers, loans, disk, log>>
       /\ (op' = "_add_borrower") => \A text \in BorrowerTexts :
            (AddBorrower(text)
             /\ (Strip(text) = Blank \/ In(Strip(text), borrowers)))
            => UNCHANGED <<tools, borrowers, loans, disk, log>>
       /\ (op' = "_delete_tool") =>
          \A cursel \in 0..Len(tools_listbox), yes \in BOOLEAN :
            (DeleteTool(cursel, yes)
             /\ (cursel = 0 \/ LoansOf(tools_listbox[cursel]) # {}))
            => UNCHANGED <<tools, borrowers, loans, disk, log>>
       /\ (op' = "_delete_borrower") =>
          \A cursel \in 0..Len(borrowers_listbox), yes \in BOOLEAN :
            (DeleteBorrower(cursel, yes)
             /\ (cursel = 0
                 \/ \E i \in 1..Len(loans) :
                        loans[i].borrower = borrowers_listbox[cursel]))
            => UNCHANGED <<tools, borrowers, loans, disk, log>>
       /\ (op' = "_lend_tool" /\ msg' # "none")
            => UNCHANGED <<tools, borrowers, loans, disk, log>>]_vars

\* a lend has just been refused in a registry that holds a loan and a log line
C4_Witness ==
    /\ op = "_lend_tool"
    /\ msg \in {"BlankSelection", "UnknownTool", "UnknownBorrower", "AlreadyLent"}
    /\ Len(loans) > 0
    /\ Len(log) > 0

\* C5: a run of a delete handler on a tool, or a borrower, that an active
\* loan references shows the in-use warning without asking for confirmation
\* and changes nothing, however many loans reference it; on one that no
\* active loan references (as soon as the last such loan is returned) it
\* asks, and on "yes" removes exactly that name.
C5_DeleteBlockedWhileLent ==
    [][/\ (op' = "_delete_tool") =>
          \A cursel \in 1..Len(tools_listbox), yes \in BOOLEAN :
            DeleteTool(cursel, yes)
            => IF LoansOf(tools_listbox[cursel]) # {}
               THEN /\ msg' = "ToolInUse"
                    /\ reply' = "none"
                    /\ UNCHANGED <<tools, borrowers, loans, disk>>
               ELSE /\ msg' = "ConfirmDeleteTool"
                    /\ yes => ~In(tools_listbox[cursel], tools')
       /\ (op' = "_delete_borrower") =>
          \A cursel \in 1..Len(borrowers_listbox), yes \in BOOLEAN :
            DeleteBorrower(cursel, yes)
            => IF \E i \in 1..Len(loans) :
                      loans[i].borrower = borrowers_listbox[cursel]
               THEN /\ msg' = "BorrowerInUse"
                    /\ reply' = "none"
                    /\ UNCHANGED <<tools, borrowers, loans, disk>>
               ELSE /\ msg' = "ConfirmDeleteBorrower"
                    /\ yes => ~In(borrowers_listbox[cursel], borrowers')]_vars

\* a tool that was lent and returned has just been deleted
C5_Witness ==
    /\ op = "_delete_tool"
    /\ reply = "yes"
    /\ \E i \in 1..Len(log) :
           log[i].action = "RETURN" /\ ~In(log[i].tool, tools)

\* C6: in every reachable state and on any texts on which the lend handler
\* succeeds, returning the loan it appended gives back the loan list as it
\* was before the lend, and the tool selector's candidates computed from it
\* are the candidates on display before the lend, with the tool among them
\* (and not among those computed after the lend); and a step that returns
\* the loan a lend has just created leaves the loan list without it and the
\* tool among the candidates.
C6_LendReturnRoundTrip ==
    /\ [](\A ttext \in ToolTexts, btext \in BorrowerSearchTexts :
            Lend(ttext, btext).done =>
                LET lent == Lend(ttext, btext).loans
                    back == ReturnLoans(lent, lent[Len(lent)])
                IN  /\ back = loans
                    /\ AvailableTools(tools, back) = tool_full
                    /\ In(Strip(ttext), AvailableTools(tools, back))
                    /\ ~In(Strip(ttext), AvailableTools(tools, lent)))
    /\ [][(/\ op = "_lend_tool"
           /\ msg = "none"
           /\ op' = "_return_tool"
           /\ reply' = "yes"
           /\ log'[Len(log')].tool = loans[Len(loans)].tool)
          => (/\ loans' = SubSeq(loans, 1, Len(loans) - 1)
              /\ In(loans[Len(loans)].tool, tool_full')
              /\ ~In(loans[Len(loans)].tool, tool_full))]_vars

\* a loan was created and then returned, and its tool is a candidate again
C6_Witness ==
    /\ op = "_return_tool"
    /\ reply = "yes"
    /\ Len(log) = 2
    /\ log[1].action = "LEND"
    /\ log[2].action = "RETURN"
    /\ log[1].tool = log[2].tool
    /\ In(log[2].tool, tool_full)

\* sub is list with the entries failing keep left out, the others in the
\* order of list (list holds no entry twice)
IsSublistOf(sub, list, keep) ==
    /\ \A i \in 1..Len(sub) : sub[i] \in keep
    /\ \A j \in 1..Len(list) :
           list[j] \in keep => \E i \in 1..Len(sub) : sub[i] = list[j]
    /\ \A i, j \in 1..Len(sub) :
           i < j => \E m, n \in 1..Len(list) :
                        m < n /\ list[m] = sub[i] /\ list[n] = sub[j]

\* C7: whatever snapshot the application started on, in every state (each is
\* the outcome of a refresh) the tool selector's candidates are the tools
\* that are not blank and that no active loan references, in the order of
\* the tool list, and the borrower selector's candidates are the borrowers
\* that are not blank, in the order of the borrower list, whatever the loans.
C7_CandidateLists ==
    /\ IsSublistOf(tool_full, tools,
                   {tools[i] : i \in 1..Len(tools)}
                       \ ({Blank, Space} \cup {loans[i].tool : i \in 1..Len(loans)}))
    /\ IsSublistOf(borrower_full, borrowers,
                   {borrowers[i] : i \in 1..Len(borrowers)} \ {Blank, Space})

\* a handler has refreshed the view of a registry that holds a blank tool,
\* a lent tool and a tool on offer
C7_Witness ==
    /\ op \in {"_lend_tool", "_return_tool"}
    /\ In(Space, tools)
    /\ Len(loans) = 1
    /\ Len(tool_full) = 1
    /\ Len(tools) = 3

(***************************************************************************)
(* Properties of the selector (checked under SpecSel).                     *)
(***************************************************************************)
ThreeTools == <<Hammer, HandDrill, Wrench>>

\* C8 as stated: when the keystroke handler has run on the text "ha" with
\* the candidates Hammer, Hand Drill, Wrench, the filtered list is Hammer
\* alone.
C8_AsStated ==
    (op = "_on_key" /\ tool_full = ThreeTools /\ tool_var = <<"h", "a">>)
    => filtered_list = <<Hammer>>

\* C8 (amended): when the keystroke handler has run on the text "ha" with
\* the candidates Hammer, Hand Drill, Wrench, the filtered list is Hammer,
\* Hand Drill: both contain "ha" once letter case is ignored.
C8_FilterHa ==
    (op = "_on_key" /\ tool_full = ThreeTools /\ tool_var = <<"h", "a">>)
    => filtered_list = <<Hammer, HandDrill>>

\* the handler has run on "ha" with those candidates and the popdown shows
\* what it computed
C8_Witness ==
    /\ op = "_on_key"
    /\ tool_full = ThreeTools
    /\ tool_var = <<"h", "a">>
    /\ viewable
    /\ Len(lb_items) = 2

\* item contains text as a run of characters, letter case ignored
HasText(item, text) ==
    \E k \in 0..(Len(item) - Len(text)) :
        \A j \in 1..Len(text) : LowerChar(item[k + j]) = LowerChar(text[j])

\* C9: when the keystroke handler has run (on a key that is no navigation
\* key), the filtered list holds exactly the current candidates that contain
\* the entry's text, letter case ignored, in the candidates' order, whatever
\* the filtered list was before; on the empty text it is the whole candidate
\* list; and a keystroke that shortens the text right after another
\* keystroke loses no entry of the filtered list.
C9_FilterFromFull ==
    /\ [](op = "_on_key" =>
            /\ IsSublistOf(filtered_list, tool_full,
                           {tool_full[i] : i \in {j \in 1..Len(tool_full) :
                                HasText(tool_full[j], tool_var)}})
            /\ (tool_var = Blank => filtered_list = tool_full))
    /\ [][(op = "_on_key" /\ op' = "_on_key" /\ Len(tool_var') < Len(tool_var))
          => \A i \in 1..Len(filtered_list) :
                 In(filtered_list[i], filtered_list')]_vars

\* the handler has run on "hA" with three candidates and kept two of them
C9_Witness ==
    /\ op = "_on_key"
    /\ tool_var = <<"h", "A">>
    /\ tool_full = ThreeTools
    /\ filtered_list = <<Hammer, HandDrill>>

\* C10 as stated: a press of Escape while the popdown is on screen, the focus
\* on the entry or in the listbox, takes the popdown off the screen and
\* leaves the entry's text as it was.
C10_EscapeCloses ==
    [][(op' = "Escape" /\ viewable)
       => (~viewable' /\ tool_var' = tool_var)]_vars

\* C11 as stated: whenever the popdown is on screen and the focus is on
\* neither the entry nor the listbox, the popdown is taken off the screen
\* (unless the focus comes back first), whether the focus left the entry or
\* left the listbox it had moved into on Down.
C11_ClosesAfterFocusLoss ==
    (viewable /\ focus = "other") ~> (~viewable \/ focus # "other")

\* C12: a deferred focus check that runs while the focus is on the entry or
\* in the listbox leaves the popdown, its list and the entry's text as they
\* are, whatever focus changes came between its scheduling and its run.
C12_CheckReadsCurrentFocus ==
    [][(op' = "_check_focus" /\ focus \in {"entry", "listbox"})
       => UNCHANGED <<popdown, viewable, lb_items, lb_sel, tool_var,
                      filtered_list>>]_vars

\* a check scheduled by a focus loss has run after the focus came back to
\* the entry, and the popdown is still on screen
C12_Witness ==
    /\ op = "_check_focus"
    /\ focus = "entry"
    /\ viewable
    /\ timers = 0

\* C13 as stated: a press of Return while the popdown is on screen, the
\* focus on the entry or in the listbox, commits the highlighted row of the
\* listbox, or else the first entry of a non-empty filtered list, and takes
\* the popdown off the screen; while the popdown is off the screen it
\* changes nothing.
C13_EnterCommits ==
    [][(op' = "Return") =>
          IF viewable
          THEN IF lb_sel # 0
               THEN tool_var' = lb_items[lb_sel] /\ ~viewable'
               ELSE (filtered_list # << >>)
                        => (tool_var' = filtered_list[1] /\ ~viewable')
          ELSE UNCHANGED <<tool_var, viewable, filtered_list, lb_items,
                           lb_sel, focus>>]_vars

\* C14: a click on row i of the listbox makes the entry's text the text of
\* that row, takes the popdown off the screen and gives the entry the focus,
\* so that a deferred focus check running next leaves everything as it is.
C14_ListClickCommits ==
    /\ [](op = "_on_list_click" => (focus = "entry" /\ ~viewable))
    /\ [][/\ (op' = "_on_list_click") => \A i \in 1..Len(lb_items) :
                OnListClick(i) => (/\ tool_var' = lb_items[i]
                                   /\ ~viewable'
                                   /\ focus' = "entry")
          /\ (op = "_on_list_click" /\ op' = "_check_focus")
                => UNCHANGED <<viewable, tool_var, focus>>]_vars

\* the second row was clicked while a check scheduled by an earlier focus
\* loss was still pending
C14_Witness ==
    /\ op = "_on_list_click"
    /\ tool_var = Wrench
    /\ timers = 1
    /\ focus = "entry"

(***************************************************************************)
(* More properties of the application (checked under Spec).                *)
(***************************************************************************)
\* C15 as stated: a run of an add, delete, lend or return handler that
\* leaves the list it works on as it was has shown a dialog; an add on a
\* blank text among them.
C15_RejectionsReported ==
    [][/\ (op' = "_add_tool" /\ tools' = tools) => msg' # "none"
       /\ (op' = "_add_borrower" /\ borrowers' = borrowers) => msg' # "none"
       /\ (op' = "_delete_tool" /\ tools' = tools) => msg' # "none"
       /\ (op' = "_delete_borrower" /\ borrowers' = borrowers)
             => msg' # "none"
       /\ (op' = "_lend_tool" /\ loans' = loans) => msg' # "none"
       /\ (op' = "_return_tool" /\ loans' = loans) => msg' # "none"]_vars

\* C16: in every reachable state the snapshot on disk holds the tools, the
\* borrowers and the loans of the registry in memory, and a step that
\* changes the registry writes the whole new registry and shows it.
C16_SnapshotMatchesRegistry ==
    /\ [](disk = [tools |-> tools, borrowers |-> borrowers, loans |-> loans])
    /\ [][(<<tools, borrowers, loans>>' # <<tools, borrowers, loans>>)
          => (/\ disk' = [tools |-> tools', borrowers |-> borrowers',
                          loans |-> loans']
              /\ tools_listbox' = disk'.tools
              /\ borrowers_listbox' = disk'.borrowers
              /\ rows' = disk'.loans)]_vars

\* a return has just been written: the snapshot holds two tools, a borrower
\* and no loan any more
C16_Witness ==
    /\ op = "_return_tool"
    /\ reply = "yes"
    /\ Len(disk.tools) = 2
    /\ Len(disk.borrowers) = 1
    /\ disk.loans = << >>

\* C17: every step leaves the audit log as it was or appends one line to
\* it; a successful lend appends the line LEND with the tool and the
\* borrower of the loan it created, a confirmed return the line RETURN with
\* the tool and the borrower of the loan it removed; every other step (a
\* rejected lend, a declined return, an add, a delete) leaves the log as it
\* was; and when a line is appended the snapshot holds the changed loans.
C17_AuditLog ==
    [][/\ (op' = "_lend_tool" /\ msg' = "none")
            => (/\ loans' = Append(loans, loans'[Len(loans')])
                /\ log' = Append(log, [action |-> "LEND",
                                       tool |-> loans'[Len(loans')].tool,
                                       borrower |-> loans'[Len(loans')].borrower]))
       /\ (op' = "_return_tool" /\ reply' = "yes")
            => \E i \in 1..Len(loans) :
                 /\ loans' = SubSeq(loans, 1, i - 1)
                                \o SubSeq(loans, i + 1, Len(loans))
                 /\ log' = Append(log, [action |-> "RETURN",
                                        tool |-> loans[i].tool,
                                        borrower |-> loans[i].borrower])
       /\ ~(\/ op' = "_lend_tool" /\ msg' = "none"
            \/ op' = "_return_tool" /\ reply' = "yes") => log' = log
       /\ (log' # log) => (disk'.loans = loans' /\ loans' # loans)]_vars

\* two lends, of two tools to two borrowers, have been logged
C17_Witness ==
    /\ Len(log) = 2
    /\ log[1].action = "LEND"
    /\ log[2].action = "LEND"
    /\ log[1].borrower # log[2].borrower
    /\ Len(loans) = 2

(***************************************************************************)
(* SpecAdd: the add fields under their key validation.  Both entries are   *)
(* created with validate="key" and the command _validate_input, so an      *)
(* edit that would leave a text _validate_input refuses is not applied,    *)
(* and the add handlers read only texts it accepts.                        *)
(***************************************************************************)
\* the limit in _validate_input
MaxNameLen == 30

\* a validation that lets one character more through
ValidateInput_OffByOne(new_text) == Len(new_text) <= MaxNameLen + 1

\* ToolLendingApp._validate_input
ValidateInput(new_text) == Len(new_text) <= MaxNameLen

\* a text of n characters
Filler(n) == [i \in 1..n |-> "x"]

\* texts the user tries to bring into an add field
TypedTexts ==
    {Blank, Space, Alice, Space \o Alice \o Space,
     Filler(MaxNameLen), Filler(MaxNameLen + 1),
     Space \o Filler(MaxNameLen - 1), Space \o Filler(MaxNameLen)}

\* the texts an add field can hold
EntryTexts == {text \in TypedTexts : ValidateInput(text)}

NextAdd ==
    \/ \E text \in EntryTexts : AddTool(text)
    \/ \E cursel \in 0..Len(tools_listbox), yes \in BOOLEAN :
           DeleteTool(cursel, yes)
    \/ \E text \in EntryTexts : AddBorrower(text)
    \/ \E cursel \in 0..Len(borrowers_listbox), yes \in BOOLEAN :
           DeleteBorrower(cursel, yes)

SpecAdd == Init /\ [][NextAdd]_vars

\* name is stripped, not blank and of 1 to 30 characters
WellFormedName(name) ==
    /\ name # << >>
    /\ name[1] # " "
    /\ name[Len(name)] # " "
    /\ Len(name) >= 1
    /\ Len(name) <= 30

\* C18: from the empty registry, whatever texts the add fields held when
\* the add handlers ran, every tool name and every borrower name in the
\* registry is stripped, not blank and of 1 to 30 characters.
C18_StoredNames ==
    /\ \A i \in 1..Len(tools) : WellFormedName(tools[i])
    /\ \A i \in 1..Len(borrowers) : WellFormedName(borrowers[i])

\* a name of 30 characters, one of 29 typed after a space and a short name
\* typed between spaces are stored
C18_Witness ==
    /\ Len(tools) = 3
    /\ \E i \in 1..3 : Len(tools[i]) = 30
    /\ \E i \in 1..3 : Len(tools[i]) = 29
    /\ \E i \in 1..3 : tools[i] = Alice

\* list without its element at index k
Without(list, k) == SubSeq(list, 1, k - 1) \o SubSeq(list, k + 1, Len(list))

\* C19 (checked under Spec): an add that changes the tool list appends the
\* stripped name at its end, so that two accepted adds on the empty
\* registry leave the two names in the order of the adds; a delete that
\* changes it removes the selected row and nothing else; every other step
\* leaves the tool list as it is; and the same holds of the borrower list.
C19_InsertionOrder ==
    [][/\ (op' = "_add_tool") => \A text \in ToolTexts :
            (AddTool(text) /\ tools' # tools)
            => (/\ tools' = tools \o <<Strip(text)>>
                /\ (Len(tools) = 1 => tools' = <<tools[1], Strip(text)>>))
       /\ (op' = "_delete_tool") =>
          \A cursel \in 0..Len(tools_listbox), yes \in BOOLEAN :
            (DeleteTool(cursel, yes) /\ tools' # tools)
            => (tools_listbox = tools /\ tools' = Without(tools, cursel))
       /\ (op' \notin {"_add_tool", "_delete_tool"}) => tools' = tools
       /\ (op' = "_add_borrower") => \A text \in BorrowerTexts :
            (AddBorrower(text) /\ borrowers' # borrowers)
            => borrowers' = borrowers \o <<Strip(text)>>
       /\ (op' = "_delete_borrower") =>
          \A cursel \in 0..Len(borrowers_listbox), yes \in BOOLEAN :
            (DeleteBorrower(cursel, yes) /\ borrowers' # borrowers)
            => (/\ borrowers_listbox = borrowers
                /\ borrowers' = Without(borrowers, cursel))
       /\ (op' \notin {"_add_borrower", "_delete_borrower"})
            => borrowers' = borrowers]_vars

\* one of two tools has just been deleted from a registry with two
\* borrowers, added Bob first
C19_Witness ==
    /\ op = "_delete_tool"
    /\ reply = "yes"
    /\ Len(tools) = 1
    /\ borrowers = <<Bob, Alice>>

(***************************************************************************)
(* SpecStart: the application started on whatever DATA_FILE holds.         *)
(***************************************************************************)
\* DATA_FILE at startup: absent, not parseable as JSON, or a JSON value,
\* which is a snapshot or an object lacking keys of a snapshot
Files ==
    {[kind |-> "missing"], [kind |-> "garbage"]}
        \cup {[kind |-> "json", value |-> v] :
                  v \in Snapshots \cup {[tools |-> <<Hammer>>]}}

\* load_data(): the default when the file does not exist or reading it
\* raised, else whatever json.load returned
LoadData(file) ==
    IF file.kind = "json" THEN file.value ELSE EmptyData

\* data[key], or the marker of the KeyError it raises
Lookup(data, key) == IF key \in DOMAIN data THEN data[key] ELSE "KeyError"

\* ToolLendingApp.__init__: self.data = load_data(), then _refresh_all,
\* which raises KeyError on the first key the data lacks; the exception
\* leaves __init__ and no handler ever runs
InitStart ==
    \E file \in Files :
        LET data == LoadData(file)
            complete == {"tools", "borrowers", "loans"} \subseteq DOMAIN data
        IN  /\ tools = Lookup(data, "tools")
            /\ borrowers = Lookup(data, "borrowers")
            /\ loans = Lookup(data, "loans")
            /\ disk = data
            /\ log = << >>
            /\ today = 0
            /\ tools_listbox = (IF "tools" \in DOMAIN data
                                THEN data.tools ELSE << >>)
            /\ borrowers_listbox = (IF complete THEN data.borrowers ELSE << >>)
            /\ rows = (IF complete THEN data.loans ELSE << >>)
            /\ tool_var = Blank
            /\ tool_full = (IF complete
                            THEN AvailableTools(data.tools, data.loans)
                            ELSE << >>)
            /\ borrower_var = Blank
            /\ borrower_full = (IF complete
                                THEN AvailableBorrowers(data.borrowers)
                                ELSE << >>)
            /\ SelIdle
            /\ msg = (IF complete THEN "none" ELSE "KeyError")
            /\ reply = "none"
            /\ op = "__init__"

\* the handlers run once __init__ has returned
NextStart == msg # "KeyError" /\ Next

SpecStart == InitStart /\ [][NextStart]_vars

\* C20 as stated: when the application has started on a file that is
\* missing or cannot be read as a snapshot, the registry holds the three
\* sequences tools, borrowers and loans, all empty, and startup has not
\* failed.
C20_StartsEmpty ==
    (op = "__init__"
     /\ (disk = EmptyData \/ DOMAIN disk # {"tools", "borrowers", "loans"}))
    => (/\ tools = << >>
        /\ borrowers = << >>
        /\ loans = << >>
        /\ msg = "none")

(***************************************************************************)
(* Frame properties and integrity of the registry (checked under Spec).    *)
(***************************************************************************)
\* C21: a step that lengthens the loan list is a lend and appends one loan
\* to it; a step that shortens it is a return and takes one loan out of it;
\* every other step, an add or a delete among them, leaves the loan list as
\* it is, so that no loan ever changes its tool, borrower or date; and a
\* lend or a return leaves the tool list and the borrower list as they are.
C21_OnlyLendAndReturnTouchLoans ==
    [][/\ \/ loans' = loans
          \/ /\ op' = "_lend_tool"
             /\ Len(loans') = Len(loans) + 1
             /\ SubSeq(loans', 1, Len(loans)) = loans
          \/ /\ op' = "_return_tool"
             /\ \E i \in 1..Len(loans) : loans' = Without(loans, i)
       /\ (op' \in {"_add_tool", "_delete_tool", "_add_borrower",
                    "_delete_borrower", "tick"}) => loans' = loans
       /\ (op' \in {"_lend_tool", "_return_tool"})
            => (tools' = tools /\ borrowers' = borrowers)]_vars

\* a borrower has just been deleted while another one holds a loan made on
\* an earlier day
C21_Witness ==
    /\ op = "_delete_borrower"
    /\ reply = "yes"
    /\ Len(loans) = 1
    /\ loans[1].date < today

\* C28: from the empty registry, in every reachable state the tool of every
\* active loan is in the tool list and its borrower is in the borrower list,
\* and there are no more active loans than tools.
C28_LoansReferToRegistry ==
    /\ \A i \in 1..Len(loans) :
           /\ \E j \in 1..Len(tools) : tools[j] = loans[i].tool
           /\ \E j \in 1..Len(borrowers) : borrowers[j] = loans[i].borrower
    /\ Len(loans) <= Len(tools)

\* both tools are lent and the delete of one of them has just been refused
C28_Witness ==
    /\ op = "_delete_tool"
    /\ msg = "ToolInUse"
    /\ Len(loans) = 2
    /\ Len(tools) = 2

\* C26: a step of the return handler or of a delete handler whose askyesno
\* was answered "no" leaves the registry, the snapshot, the audit log and
\* the view as they were, and such a handler changes the registry only on
\* "yes"; a return answered "yes" on row i takes exactly the loan of that
\* row out of the loan list (in every reachable state, for every row, what
\* the handler would remove is the loan at the row's place), writes the
\* snapshot, logs the line RETURN with
\* that loan's tool and borrower, and rebuilds the rows and the tool
\* candidates.
C26_ConfirmedMutations ==
    /\ [](\A i \in 1..Len(rows) :
            /\ rows[i] = loans[i]
            /\ ReturnLoans(loans, rows[i]) = Without(loans, i))
    /\ [][/\ (op' \in {"_return_tool", "_delete_tool", "_delete_borrower"}
              /\ reply' # "yes")
               => UNCHANGED <<tools, borrowers, loans, disk, log, rows,
                              tools_listbox, borrowers_listbox, tool_full,
                              borrower_full>>
          /\ (op' = "_return_tool") =>
             \A i \in 1..Len(rows) :
               ReturnTool(i, TRUE)
               => (/\ loans' = Without(loans, i)
                   /\ disk' = [tools |-> tools, borrowers |-> borrowers,
                               loans |-> loans']
                   /\ log' = Append(log, [action |-> "RETURN",
                                          tool |-> rows[i].tool,
                                          borrower |-> rows[i].borrower])
                   /\ rows' = loans'
                   /\ \E j \in 1..Len(tool_full') :
                          tool_full'[j] = rows[i].tool)]_vars

\* the return of one of two loans has just been declined
C26_Witness ==
    /\ op = "_return_tool"
    /\ reply = "no"
    /\ Len(loans) = 2
    /\ Len(rows) = 2

(***************************************************************************)
(* SpecLend: the lending section with the texts of the two selectors as    *)
(* state: the user leaves a text in each and presses LEND.                 *)
(***************************************************************************)
\* the user leaves ttext in the tool selector and btext in the borrower
\* selector (typed, or picked from their lists: SearchEntry.var)
EditSelectors(ttext, btext) ==
    /\ <<tool_var, borrower_var>> # <<ttext, btext>>
    /\ tool_var' = ttext
    /\ borrower_var' = btext
    /\ op' = "edit"
    /\ msg' = "none"
    /\ reply' = "none"
    /\ UNCHANGED <<dataVars, viewVars, today, selVars>>

\* the LEND button: _lend_tool reads self.tool_search.get() and
\* self.borrower_search.get()
PressLend == LendTool(tool_var, borrower_var)

NextLend ==
    \/ \E text \in ToolTexts : AddTool(text)
    \/ \E text \in BorrowerTexts : AddBorrower(text)
    \/ \E ttext \in ToolTexts, btext \in BorrowerSearchTexts :
           EditSelectors(ttext, btext)
    \/ PressLend

SpecLend == Init /\ [][NextLend]_vars

\* C22: a run of the lend handler that succeeds appends the loan of the
\* stripped selector texts, writes the registry with it to the snapshot,
\* appends the LEND line to the audit log, empties both selectors and
\* refreshes the tool candidates, which offered the tool before and do not
\* offer it after; a run that rejects leaves both selector texts, the
\* registry, the snapshot and the log as they were.
C22_LendEffects ==
    [][(op' = "_lend_tool") =>
          IF msg' = "none"
          THEN /\ loans' = Append(loans, [tool |-> Strip(tool_var),
                                          borrower |-> Strip(borrower_var),
                                          date |-> today])
               /\ disk' = [tools |-> tools, borrowers |-> borrowers,
                           loans |-> loans']
               /\ log' = Append(log, [action |-> "LEND",
                                      tool |-> Strip(tool_var),
                                      borrower |-> Strip(borrower_var)])
               /\ tool_var' = Blank
               /\ borrower_var' = Blank
               /\ \E j \in 1..Len(tool_full) : tool_full[j] = Strip(tool_var)
               /\ \A j \in 1..Len(tool_full') :
                      tool_full'[j] # Strip(tool_var)
               /\ rows' = loans'
          ELSE UNCHANGED <<tool_var, borrower_var, tools, borrowers, loans,
                           disk, log, tool_full, borrower_full, rows>>]_vars

\* a lend of a lent tool has just been rejected and the selectors still
\* hold the texts, the tool's with the spaces typed around it
C22_Witness ==
    /\ op = "_lend_tool"
    /\ msg = "AlreadyLent"
    /\ tool_var = Space \o Hammer \o Space
    /\ borrower_var = Bob

(***************************************************************************)
(* More properties of the selector (checked under SpecSel).                *)
(***************************************************************************)
\* C23: when the keystroke handler has run on a key that is no navigation
\* key, the popdown is on screen with the filtered list in its listbox if
\* that list is not empty, and off the screen if it is empty; and a press of
\* Up, Down, Return or Escape leaves the filtered list as it was, as does
\* Tab, which takes the focus away.
C23_KeystrokeOpensOrCloses ==
    /\ [](op = "_on_key" =>
            IF filtered_list # << >>
            THEN viewable /\ lb_items = filtered_list
            ELSE ~viewable)
    /\ [][(op' \in {"Up", "Down", "Return", "Escape", "focus_away"})
          => filtered_list' = filtered_list]_vars

\* typing "a" has narrowed the list on show from three entries to two
C23_Witness ==
    /\ op = "_on_key"
    /\ tool_var = <<"a">>
    /\ tool_full = ThreeTools
    /\ viewable
    /\ lb_items = <<Hammer, HandDrill>>

\* C24: a click on the entry makes the filtered list the candidate list the
\* host assigned last, whatever the entry's text and the filtered list were;
\* if that list is not empty the popdown is on screen afterwards with the
\* whole of it in its listbox, and if it is empty the popdown stays as it
\* was, off the screen if it was off.
C24_ClickShowsCandidates ==
    [][(op' = "_on_click") =>
          /\ filtered_list' = tool_full
          /\ tool_var' = tool_var
          /\ IF tool_full # << >>
             THEN viewable' /\ lb_items' = tool_full
             ELSE viewable' = viewable /\ lb_items' = lb_items]_vars

\* a click has put all three candidates on show although the entry holds a
\* text that none of them contains
C24_Witness ==
    /\ op = "_on_click"
    /\ tool_var = <<"h", "h">>
    /\ viewable
    /\ lb_items = ThreeTools

\* C25: a press of Down on the entry while the popdown is on screen moves
\* the focus into the listbox, selects its first row, schedules one focus
\* check and leaves the popdown on screen; and the focus check that runs
\* next finds the focus in the listbox and leaves the popdown on screen.
C25_DownEntersList ==
    [][/\ (op' = "Down" /\ viewable)
            => (/\ focus' = "listbox"
                /\ lb_sel' = 1
                /\ viewable'
                /\ lb_items' = lb_items
                /\ timers' = timers + 1)
       /\ (op = "Down" /\ viewable /\ op' = "_check_focus")
            => (viewable' /\ focus' = "listbox" /\ lb_sel' = 1)]_vars

\* the check scheduled by a Down has run and the popdown is still on
\* screen, the focus on its first row
C25_Witness ==
    /\ op = "_check_focus"
    /\ focus = "listbox"
    /\ viewable
    /\ lb_sel = 1
    /\ timers = 0

\* C29 as stated: whenever the popdown is on screen, every entry of its
\* listbox is in the selector's current candidate list.
C29_PopupShowsCandidates ==
    viewable => \A i \in 1..Len(lb_items) :
                    \E j \in 1..Len(tool_full) : tool_full[j] = lb_items[i]

\* C30 as stated: a press of Down on the entry while the popdown is off the
\* screen leaves the focus on the entry and the listbox without a selected
\* row.
C30_DownWhileClosed ==
    [][(op' = "Down" /\ ~viewable)
       => (focus' = "entry" /\ lb_sel' = lb_sel /\ ~viewable')]_vars

(***************************************************************************)
(* SpecFail: the application when a write of DATA_FILE or an append to     *)
(* LOG_FILE raises. No handler catches the exception: it leaves the        *)
(* handler at the failing call, Tk reports it and the application goes on. *)
(***************************************************************************)
\* save_data raised in a handler that had changed the registry in memory to
\* (t, b, l): the file, the log, the selectors and the views are as before
SaveFails(t, b, l) ==
    /\ tools' = t
    /\ borrowers' = b
    /\ loans' = l
    /\ msg' = "OSError"
    /\ UNCHANGED <<disk, log, viewVars, tool_var, borrower_var, today, selVars>>

\* log_action raised in _lend_tool or _return_tool after save_data wrote the
\* registry with loan list l: the log, the selectors and the views are as
\* before
LogFails(l) ==
    /\ loans' = l
    /\ disk' = SaveData(tools, borrowers, l)
    /\ msg' = "OSError"
    /\ UNCHANGED <<tools, borrowers, log, viewVars, tool_var, borrower_var,
                   today, selVars>>

\* list.remove(x) raised ValueError, x is not in the list: nothing changes
RemoveRaises ==
    /\ msg' = "ValueError"
    /\ reply' = "yes"
    /\ UNCHANGED <<dataVars, viewVars, tool_var, borrower_var, today, selVars>>

\* _add_tool whose save_data raises
AddToolSaveFails(text) ==
    /\ AddVerdict(Strip(text), tools) = "ok"
    /\ op' = "_add_tool"
    /\ reply' = "none"
    /\ SaveFails(Append(tools, Strip(text)), borrowers, loans)

\* _add_borrower whose save_data raises
AddBorrowerSaveFails(text) ==
    /\ AddVerdict(Strip(text), borrowers) = "ok"
    /\ op' = "_add_borrower"
    /\ reply' = "none"
    /\ SaveFails(tools, Append(borrowers, Strip(text)), loans)

\* _delete_tool on row cursel of the tools list box, confirmed, when the
\* handler does not run to its end: self.data["tools"].remove(tool) raises
\* for a tool the registry no longer holds, or save_data raises
DeleteToolFails(cursel) ==
    /\ cursel \in 1..Len(tools_listbox)
    /\ LET tool == tools_listbox[cursel]
       IN  /\ DeleteVerdict(cursel, ToolBorrowed(tool, loans)) = "Confirm"
           /\ op' = "_delete_tool"
           /\ IF In(tool, tools)
              THEN /\ reply' = "yes"
                   /\ SaveFails(RemoveFirst(tools, tool), borrowers, loans)
              ELSE RemoveRaises

\* _delete_borrower on row cursel of the borrowers list box, confirmed, when
\* the handler does not run to its end
DeleteBorrowerFails(cursel) ==
    /\ cursel \in 1..Len(borrowers_listbox)
    /\ LET borrower == borrowers_listbox[cursel]
       IN  /\ DeleteVerdict(cursel, BorrowerHasLoans(borrower, loans)) = "Confirm"
           /\ op' = "_delete_borrower"
           /\ IF In(borrower, borrowers)
              THEN /\ reply' = "yes"
                   /\ SaveFails(tools, RemoveFirst(borrowers, borrower), loans)
              ELSE RemoveRaises

\* _lend_tool that passes its tests and whose save_data (inLog FALSE) or
\* log_action (inLog TRUE) raises: the loan is appended, the selectors are
\* not cleared and _refresh_all does not run
LendToolFails(ttext, btext, inLog) ==
    LET r == LendResult(ttext, btext, tools, borrowers, loans, log, today)
    IN  /\ r.done
        /\ op' = "_lend_tool"
        /\ reply' = "none"
        /\ IF inLog
           THEN LogFails(r.loans)
           ELSE SaveFails(tools, borrowers, r.loans)

\* _return_tool(loan) from the Return button of row i, confirmed, when the
\* handler does not run to its end: self.data["loans"].remove(loan) raises
\* for a loan the registry no longer holds, or save_data or log_action raises
ReturnToolFails(i, inLog) ==
    /\ i \in 1..Len(rows)
    /\ LET loan == rows[i]
       IN  /\ op' = "_return_tool"
           /\ IF In(loan, loans)
              THEN /\ reply' = "yes"
                   /\ IF inLog
                      THEN LogFails(ReturnLoans(loans, loan))
                      ELSE SaveFails(tools, borrowers, ReturnLoans(loans, loan))
              ELSE RemoveRaises

\* the texts typed while writes may fail: one tool and one borrower, blank
\* and padded
FailToolTexts == {Blank, Hammer, Space \o Hammer \o Space}

FailBorrowerTexts == {Blank, Alice, Alice \o Space}

\* the handlers that run to their end (a confirmed delete or return does
\* when the list still holds what it removes), and the ones that do not
NextFail ==
    \/ \E text \in FailToolTexts : AddTool(text)
    \/ \E cursel \in 0..Len(tools_listbox), yes \in BOOLEAN :
          /\ (cursel # 0 /\ yes) => In(tools_listbox[cursel], tools)
          /\ DeleteTool(cursel, yes)
    \/ \E text \in FailBorrowerTexts : AddBorrower(text)
    \/ \E cursel \in 0..Len(borrowers_listbox), yes \in BOOLEAN :
          /\ (cursel # 0 /\ yes) => In(borrowers_listbox[cursel], borrowers)
          /\ DeleteBorrower(cursel, yes)
    \/ \E ttext \in FailToolTexts, btext \in FailBorrowerTexts : LendTool(ttext, btext)
    \/ \E i \in 1..Len(rows), yes \in BOOLEAN : ReturnTool(i, yes)
    \/ \E text \in FailToolTexts : AddToolSaveFails(text)
    \/ \E text \in FailBorrowerTexts : AddBorrowerSaveFails(text)
    \/ \E cursel \in 1..Len(tools_listbox) : DeleteToolFails(cursel)
    \/ \E cursel \in 1..Len(borrowers_listbox) : DeleteBorrowerFails(cursel)
    \/ \E ttext \in FailToolTexts, btext \in FailBorrowerTexts, inLog \in BOOLEAN :
          LendToolFails(ttext, btext, inLog)
    \/ \E i \in 1..Len(rows), inLog \in BOOLEAN : ReturnToolFails(i, inLog)

SpecFail == Init /\ [][NextFail]_vars

\* C27 as stated: when writes of the snapshot or appends to the log may
\* fail, the registry in memory keeps unique names, at most one loan per
\* tool and loans that refer to registered tools and borrowers, and no later
\* add, delete, lend or return fails with an exception of its own (the
\* confirmed Return of a row still displayed removes that row's loan).
C27_UsableAfterFailedWrite ==
    /\ NoDuplicates(tools)
    /\ NoDuplicates(borrowers)
    /\ \A i, j \in 1..Len(loans) : loans[i].tool = loans[j].tool => i = j
    /\ \A i \in 1..Len(loans) :
           In(loans[i].tool, tools) /\ In(loans[i].borrower, borrowers)
    /\ msg # "ValueError"

====
